---- MODULE Spec2Model ----
(***************************************************************************)
(* A model of src/nvhttp.cpp: the GameStream pairing state machine, the    *)
(* PIN entry channel, the authorized-client store with its persisted file  *)
(* and the peer-certificate verifier.                                      *)
(*                                                                         *)
(* Strings are sequences of one-character strings, so that find(" ("),     *)
(* substr and the '(' -> '[' rewriting are computed as the code computes   *)
(* them.  Cryptographic values are symbolic: a key is the pair it was      *)
(* derived from, a digest is the tuple it was computed over, a ciphertext  *)
(* names the key it was made with.  Byte vectors whose length the code     *)
(* reads carry their length in bytes.                                      *)
(***************************************************************************)
EXTENDS Integers, Sequences, FiniteSets, TLC

(************************** bounds of the model ****************************)
\* fresh uuids the run may draw (bounds the number of store entries created)
MaxUuid == 2
\* distinct values crypto::rand(16) may return for a server nonce
MaxNonce == 1
\* launch sessions made in a run
MaxSessionId == 2

(*************************** program constants *****************************)
\* hex characters of salt the key derivation needs
SaltHexLen == 32
\* bytes of a clientpairingsecret that are the secret; the rest is the signature
SecretLen == 16
\* bytes of a SHA-256 digest, the length memcmp compares
HashLen == 32

(******************************* domains ***********************************)
UniqueIds == {"u1"}
\* client certificates (PEM strings); each is a valid self-signed X.509
Certs == {"c1", "c2"}
DeviceNames == {<<"A">>, <<"A", " ", "(", "2", ")">>}
Pins == {"1234"}
\* salt parameters: one of 32 hex characters, one shorter
GoodSalt == [id |-> "s", len |-> 32]
Salts == {GoodSalt, [id |-> "t", len |-> 8]}
Nonces == 1..MaxNonce
Tunnels == {"HTTP", "HTTPS"}

NoKey == <<>>
NoResponse == "none"

(************************* strings as sequences ****************************)
\* std::string::find(" "+"("): the first index (1-based) or 0 for npos
RECURSIVE FindFrom(_, _)
FindFrom(s, i) ==
  IF i + 1 > Len(s) THEN 0
  ELSE IF s[i] = " " /\ s[i + 1] = "(" THEN i
  ELSE FindFrom(s, i + 1)

\* the search for "(" alone
find_paren_only(s) ==
  IF \E i \in 1..Len(s) : s[i] = "("
  THEN CHOOSE i \in 1..Len(s) : s[i] = "(" /\ \A j \in 1..(i - 1) : s[j] # "("
  ELSE 0

find_paren(s) == FindFrom(s, 1)

Digit == <<"0", "1", "2", "3", "4", "5", "6", "7", "8", "9">>

\* the decimal digit of the number before n (n in 1..10)
to_string_less(n) == <<Digit[n]>>

\* std::to_string of a non-negative int
RECURSIVE to_string(_)
to_string(n) ==
  IF n < 10 THEN <<Digit[n + 1]>>
  ELSE to_string(n \div 10) \o <<Digit[(n % 10) + 1]>>

\* the loop that rewrites '(' to '[' and ')' to ']' in a paired client's name
rewrite_parens(s) ==
  [i \in 1..Len(s) |->
     IF s[i] = "(" THEN "[" ELSE IF s[i] = ")" THEN "]" ELSE s[i]]

LegacyName == <<"L", "e", "g", "a", "c", "y", " ", "M", "o", "o", "n", "l", "i", "g", "h", "t",
                " ", "C", "l", "i", "e", "n", "t">>

Range(s) == {s[i] : i \in 1..Len(s)}

(************************ the persisted state file *************************)
\* config::nvhttp.file_state on disk.  kind is "missing" (fs::exists is false),
\* "corrupt" (read_json throws), "nocreds" (JSON without root.uniqueid) or
\* "state" (root.uniqueid, optional legacy root.devices[*].certs[*], and
\* root.named_devices).
FileMissing == [kind |-> "missing", devices |-> <<>>, named_devices |-> <<>>]
FileCorrupt == [kind |-> "corrupt", devices |-> <<>>, named_devices |-> <<>>]
FileNoCreds == [kind |-> "nocreds", devices |-> <<>>, named_devices |-> <<>>]

StateFile(devs, named) == [kind |-> "state", devices |-> devs, named_devices |-> named]

\* crypto::named_cert_t
NamedCert(n, c, u) == [name |-> n, cert |-> c, uuid |-> u]

\* outcomes of the file system for one save_state + load_state pair:
\*   rd1: save_state's read_json succeeds;  wr: write_json succeeds ("ok"),
\*   throws before changing the file ("keep": the open failed) or throws after
\*   truncating it ("trunc");  rd2: load_state's read_json succeeds
IoOk == [rd1 |-> TRUE, wr |-> "ok", rd2 |-> TRUE]
IoOutcomes ==
  {IoOk, [IoOk EXCEPT !.rd1 = FALSE], [IoOk EXCEPT !.wr = "keep"],
   [IoOk EXCEPT !.wr = "trunc"], [IoOk EXCEPT !.rd2 = FALSE]}

\* the loop of save_state over client.named_devices: keep the first entry of
\* each certificate, strip the name from its first " (" on, and number the
\* second, third, ... use of a base name.  bases are the base names of the
\* entries kept so far (name_counts), out the nodes written so far.
RECURSIVE SaveLoop(_, _, _, _)
SaveLoop(devs, i, bases, out) ==
  IF i > Len(devs) THEN out
  ELSE IF \E j \in 1..Len(out) : out[j].cert = devs[i].cert
       THEN SaveLoop(devs, i + 1, bases, out)
       ELSE LET pos == find_paren(devs[i].name)
                base_name == IF pos # 0 THEN SubSeq(devs[i].name, 1, pos - 1)
                             ELSE devs[i].name
                count == Cardinality({j \in 1..Len(bases) : bases[j] = base_name})
                final_name == IF count > 0
                              THEN base_name \o <<" ", "(">> \o to_string(count + 1) \o <<")">>
                              ELSE base_name
            IN SaveLoop(devs, i + 1, Append(bases, base_name),
                        Append(out, NamedCert(final_name, devs[i].cert, devs[i].uuid)))

named_cert_nodes(devs) == SaveLoop(devs, 1, <<>>, <<>>)

\* save_state(): the file after the call
save_state(file, devs, io) ==
  IF file.kind # "missing" /\ (file.kind = "corrupt" \/ ~io.rd1)
  THEN file
  ELSE CASE io.wr = "ok" -> StateFile(<<>>, named_cert_nodes(devs))
         [] io.wr = "keep" -> file
         [] OTHER -> FileCorrupt

\* the legacy import of load_state: one entry per certificate, empty name,
\* fresh uuid
LegacyImport(certs, uuids) ==
  [i \in 1..Len(certs) |-> NamedCert(<<>>, certs[i], uuids + i)]

\* load_state(): client_root, cert_chain and the uuid counter after the call
load_state(file, devs, chain, uuids, io) ==
  IF file.kind \in {"missing", "corrupt", "nocreds"} \/ ~io.rd2
  THEN [client_root |-> devs, cert_chain |-> chain, uuid_counter |-> uuids]
  ELSE LET client == LegacyImport(file.devices, uuids) \o file.named_devices
       IN [client_root |-> client, cert_chain |-> client,
           uuid_counter |-> uuids + Len(file.devices)]

\* save_state(); load_state();  on a store st = [client_root, cert_chain,
\* file_state, uuid_counter]
SaveThenLoad(st, io) ==
  LET f == save_state(st.file_state, st.client_root, io)
      l == load_state(f, st.client_root, st.cert_chain, st.uuid_counter, io)
  IN [client_root |-> l.client_root, cert_chain |-> l.cert_chain,
      file_state |-> f, uuid_counter |-> l.uuid_counter]

\* add_authorized_client(named_cert_p)
add_authorized_client(st, named_cert_p, fresh_state, io) ==
  LET appended == [st EXCEPT !.client_root = Append(@, named_cert_p)]
  IN IF ~fresh_state THEN SaveThenLoad(appended, io) ELSE appended

\* erase_all_clients()
erase_all_clients(st, io) ==
  SaveThenLoad([st EXCEPT !.client_root = <<>>, !.cert_chain = <<>>], io)

\* the loop of unpair_client: the entries whose uuid differs, in order
unpair_filter(devs, uuid) == SelectSeq(devs, LAMBDA d : d.uuid # uuid)

\* unpair_client(uuid): the store after the call and the value returned
unpair_client(st, uuid, io) ==
  LET kept == unpair_filter(st.client_root, uuid)
  IN [store |-> SaveThenLoad([st EXCEPT !.client_root = kept], io),
      removed |-> Len(st.client_root) - Len(kept)]

\* cert_chain.verify(x509, named_cert_p): the chain accepts exactly the
\* certificates added to it; the first match is attached to the request
verify_accepts(chain, cert) == \E i \in 1..Len(chain) : chain[i].cert = cert

verify_match(chain, cert) ==
  chain[CHOOSE i \in 1..Len(chain) :
          chain[i].cert = cert /\ \A j \in 1..(i - 1) : chain[j].cert # cert]

(**************************** symbolic crypto ******************************)
\* crypto::gen_aes_key(salt, pin): the key is the pair it is derived from.
\* pin "rand" is the 16 bytes of crypto::rand(16) used on an OTP mismatch.
gen_aes_key(salt, pin) == <<"key", salt.id, pin>>

\* the key read through a null cipher_key pointer, when the read does not trap
UndefKey == <<"key", "undef", "undef">>

\* crypto::signature(x509): the signature field of a certificate
signature(cert) == <<"sig", cert>>

\* crypto::hash over serverchallenge || x509 signature || secret
hash(serverchallenge, sig, secret) == <<"sha256", serverchallenge, sig, secret>>

\* byte vectors whose length is read: len in bytes, val what the bytes are
Bytes(n, v) == [len |-> n, val |-> v]
EmptyBytes == Bytes(0, <<"empty">>)

\* a ciphertext made with key k of plaintext p  (AES-ECB, no padding)
Enc(k, p) == [key |-> k, plain |-> p]

\* crypto::cipher::ecb_t::decrypt: the plaintext under the right key, bytes of
\* the same length that mean nothing under any other
decrypt(k, c) == IF c.key = k THEN c.plain ELSE Bytes(c.plain.len, <<"garbage">>)

\* crypto::verify256(x509(cert), secret, sign): sign was made over secret with
\* the private key of cert
verify256(cert, secret, sign) == sign.signer = cert /\ sign.msg = secret

(*************************** pairing sessions ******************************)
EmptySalt == [id |-> "", len |-> 0]

\* pair_session_t, default-constructed and then given its client fields
NewSession(uniqID, deviceName, cert) ==
  [client |-> [uniqueID |-> uniqID, cert |-> cert, name |-> deviceName],
   cipher_key |-> NoKey,
   clienthash |-> EmptyBytes,
   serversecret |-> 0,
   serverchallenge |-> 0,
   response |-> NoResponse,
   salt |-> EmptySalt]

\* the empty map_id_sess
NoSessions == [x \in {} |-> 0]

\* std::unordered_map::emplace: inserts only when the key is absent; the
\* iterator it returns names the entry that is in the map afterwards
emplace(m, k, v) ==
  IF k \in DOMAIN m THEN m
  ELSE [x \in DOMAIN m \cup {k} |-> IF x = k THEN v ELSE m[x]]

\* std::unordered_map::erase(key) / erase(find(key))
erase(m, k) == [x \in DOMAIN m \ {k} |-> m[x]]

\* the XML document a handler builds: status_code (0 when never put), paired
\* (-1 when never put), status_message, and the other child element
Tree(c, p, m, b) == [code |-> c, paired |-> p, msg |-> m, body |-> b]
EmptyTree == Tree(0, -1, "", "none")

\* getservercert without the test of the salt's size
getservercert_any_salt(sess, tree, pin) ==
  [sess |-> [sess EXCEPT !.cipher_key = gen_aes_key(sess.salt, pin)],
   tree |-> [tree EXCEPT !.paired = 1, !.body = "plaincert", !.code = 200]]

\* getservercert(sess, tree, pin): the key-derivation step.  tree.put replaces
\* the fields it names and leaves the others as the caller left them.
getservercert(sess, tree, pin) ==
  IF sess.salt.len < SaltHexLen
  THEN [sess |-> sess,
        tree |-> [tree EXCEPT !.paired = 0, !.code = 400, !.msg = "Salt too short"]]
  ELSE [sess |-> [sess EXCEPT !.cipher_key = gen_aes_key(sess.salt, pin)],
        tree |-> [tree EXCEPT !.paired = 1, !.body = "plaincert", !.code = 200]]

\* clientchallenge(sess, tree, args) with the key the cipher was built from
\* and the two values crypto::rand(16) returned
clientchallenge(sess, key, serversecret, serverchallenge) ==
  [sess |-> [sess EXCEPT !.serversecret = serversecret,
                         !.serverchallenge = serverchallenge],
   tree |-> Tree(200, 1, "", "challengeresponse")]

\* serverchallengeresp(sess, tree, args)
serverchallengeresp(sess, key, encrypted_response) ==
  [sess |-> [sess EXCEPT !.clienthash = decrypt(key, encrypted_response)],
   tree |-> Tree(200, 1, "", "pairingsecret")]

\* std::memcmp(hash.data(), sess.clienthash.data(), hash.size()) == 0 when the
\* 32 bytes compared are all inside clienthash
memcmp_equal(h, clienthash) == clienthash.val = h

\* what phase 4 compares: SHA-256(serverchallenge || cert signature || secret)
expected_hash(sess, secret) ==
  hash(sess.serverchallenge, signature(sess.client.cert), secret)

\* the named certificate phase 4 builds for an accepted client
accepted_cert(sess, uuid) ==
  NamedCert(rewrite_parens(sess.client.name), sess.client.cert, uuid)

(***************************** one-time PIN ********************************)
\* one_time_pin, otp_passphrase, otp_device_name; expired stands for
\* steady_clock::now() - otp_creation_time > OTP_EXPIRE_DURATION
\* uses counts the keys derived from the registered PIN (it is not a variable
\* of the program)
OtpCleared ==
  [pin |-> "", passphrase |-> "", device_name |-> <<>>, expired |-> FALSE, uses |-> 0]

\* util::hex(crypto::hash(one_time_pin + salt + otp_passphrase), true)
otp_hash(pin, salt, passphrase) == <<"otp", pin, salt.id, passphrase>>
NoOtpAuth == <<>>

Passphrases == {[id |-> "hunter2", len |-> 7], [id |-> "abc", len |-> 3]}
OtpDeviceNames == {<<>>, <<"A">>}
OtpAuths(salt) ==
  {NoOtpAuth} \cup {otp_hash(p, salt, "hunter2") : p \in Pins}

\* the pin argument of pin(): its text, size() and whether all_of isdigit
PinArgs == {[id |-> "1234", len |-> 4, numeric |-> TRUE],
            [id |-> "12", len |-> 2, numeric |-> TRUE],
            [id |-> "12a4", len |-> 4, numeric |-> FALSE]}
PinNames == {<<>>, <<"A">>}

(******************************** state ************************************)
VARIABLES
  config,        \* [FRESH_STATE, PIN_STDIN, enable_pairing], fixed at start-up
  started,       \* start() has run its load_state and the servers accept
  crashed,       \* the process was ended by a trapped invalid access
  map_id_sess,   \* uniqueID -> pair_session_t
  client_root,   \* client_root.named_devices
  cert_chain,    \* the named certificates the verifier checks against
  file_state,    \* the persisted state file
  uuid_counter,  \* uuids generated so far; the next is uuid_counter + 1
  otp,           \* the registered one-time PIN
  threads,       \* per server thread: the /pair handler it is in the middle of
  host_audio,    \* start()'s host_audio, shared by launch and resume
  session_id_counter,  \* ids given to launch sessions so far
  app_running,   \* proc::proc.running(): the id of the running app, 0 for none
  session_count, \* rtsp_stream::session_count()
  raised,        \* the launch session last handed to rtsp_stream::launch_session_raise
  conn,          \* the HTTPS connection between its handshake and its response
  last           \* the operation just run: its input, result and response

\* what only serverinfo, applist, launch, resume, cancel and the HTTPS accept
\* loop read or write
streamvars == <<host_audio, session_id_counter, app_running, session_count, raised, conn>>

vars == <<config, started, crashed, map_id_sess, client_root, cert_chain,
          file_state, uuid_counter, otp, threads, host_audio, session_id_counter,
          app_running, session_count, raised, conn, last>>

Store == [client_root |-> client_root, cert_chain |-> cert_chain,
          file_state |-> file_state, uuid_counter |-> uuid_counter]

SetStore(st) ==
  /\ client_root' = st.client_root
  /\ cert_chain' = st.cert_chain
  /\ file_state' = st.file_state
  /\ uuid_counter' = st.uuid_counter

\* what an operation did: written counts the responses it wrote to its own
\* request, ub names an invalid access it made, arg holds what else is
\* observed of it
Obs(op, u, tree, written, ub, arg) ==
  [op |-> op, u |-> u, tree |-> tree, written |-> written, ub |-> ub, arg |-> arg]
NoArg == [x |-> 0]

\* a server thread that is in no handler
Idle == [pc |-> "idle", u |-> ""]

\* no peer certificate (SSL_get_peer_certificate returns null), no userp
NoCert == "none"
NoUser == [name |-> <<>>, cert |-> NoCert, uuid |-> -1]

\* nothing was handed to rtsp_stream::launch_session_raise yet (ids start at 1)
NoLaunchSession ==
  [id |-> 0, host_audio |-> FALSE, unique_id |-> -1, appid |-> 0, rtsp_cipher |-> FALSE]

\* no HTTPS connection is between handshake and response
NoConn == [st |-> "closed", path |-> "", args |-> [x |-> 0], userp |-> NoUser]

\* the state file found at start-up
InitialFiles ==
  {FileMissing,
   FileNoCreds,
   StateFile(<<>>, <<NamedCert(<<"A">>, "c1", 0)>>),
   StateFile(<<"c2">>, <<>>)}

Configs == [FRESH_STATE : BOOLEAN, PIN_STDIN : BOOLEAN, enable_pairing : BOOLEAN]

\* the state after construction, before start() runs
InitWith(configs, files) ==
  /\ config \in configs
  /\ started = FALSE
  /\ crashed = FALSE
  /\ map_id_sess = NoSessions
  /\ client_root = <<>>
  /\ cert_chain = <<>>
  /\ file_state \in files
  /\ uuid_counter = 0
  /\ otp = OtpCleared
  /\ threads = [t \in Tunnels |-> Idle]
  /\ host_audio = FALSE
  /\ session_id_counter = 0
  /\ app_running = 0
  /\ session_count = 0
  /\ raised = NoLaunchSession
  /\ conn = NoConn
  /\ last = Obs("init", "", EmptyTree, 0, "none", NoArg)

Running == started /\ ~crashed

\* room for the uuids one more load_state may draw for legacy entries
UuidRoom(n) == uuid_counter + n + Len(file_state.devices) <= MaxUuid

\* start(): load_state() unless FRESH_STATE
Start(rd) ==
  /\ ~started
  /\ UuidRoom(0)
  /\ started' = TRUE
  /\ IF config.FRESH_STATE
     THEN UNCHANGED <<client_root, cert_chain, uuid_counter>>
     ELSE LET l == load_state(file_state, client_root, cert_chain, uuid_counter,
                              [IoOk EXCEPT !.rd2 = rd])
          IN /\ client_root' = l.client_root
             /\ cert_chain' = l.cert_chain
             /\ uuid_counter' = l.uuid_counter
  /\ last' = Obs("start", "", EmptyTree, 0, "none", NoArg)
  /\ UNCHANGED <<streamvars, threads, config, crashed, map_id_sess, file_state, otp>>

(****************************** GET /pair **********************************)
\* the two early returns of pair(): pairing disabled, uniqueid missing
PairRefused(has_uniqueid) ==
  /\ Running
  /\ ~config.enable_pairing \/ ~has_uniqueid
  /\ last' = Obs("pair_refused", "", 
                 IF ~config.enable_pairing
                 THEN Tree(403, -1, "Pairing is disabled for this instance", "none")
                 ELSE Tree(400, -1, "Missing uniqueid parameter", "none"),
                 1, "none", NoArg)
  /\ UNCHANGED <<streamvars, threads,
                 config, started, crashed, map_id_sess, client_root, cert_chain,
                 file_state, uuid_counter, otp>>

\* a request reaches the dispatch of pair(): over HTTPS only from a client the
\* verifier accepted
Dispatched(tunnel) ==
  /\ Running
  /\ config.enable_pairing
  /\ tunnel = "HTTPS" => Len(cert_chain) > 0

\* phrase=getservercert up to and including the emplace and the salt: the map
\* afterwards.  missing names the required parameter get_arg throws on.
getservercert_insert(m, uniqID, deviceName, cert, salt, missing) ==
  LET name == IF deviceName = <<"r", "o", "t", "h">> THEN LegacyName ELSE deviceName
      inserted == emplace(m, uniqID, NewSession(uniqID, name, cert))
  IN IF missing \in {"devicename", "clientcert"} THEN m
     ELSE IF missing = "salt" THEN inserted
     ELSE [inserted EXCEPT ![uniqID].salt = salt]

\* the otpauth branch answering a mismatch with the 503 of a missing OTP
getservercert_otp_tells(sess, o, otpauth) ==
  IF o.pin = "" \/ o.expired
  THEN LET t == [EmptyTree EXCEPT !.code = 503, !.msg = "OTP auth not available."]
           r == getservercert(sess, t, "rand")
       IN [sess |-> r.sess, tree |-> r.tree, otp |-> OtpCleared, matched |-> FALSE]
  ELSE IF otp_hash(o.pin, sess.salt, o.passphrase) = otpauth
  THEN LET named == IF o.device_name # <<>>
                    THEN [sess EXCEPT !.client.name = o.device_name]
                    ELSE sess
           r == getservercert(named, EmptyTree, o.pin)
       IN [sess |-> r.sess, tree |-> r.tree, otp |-> OtpCleared, matched |-> TRUE]
  ELSE [sess |-> sess,
        tree |-> [EmptyTree EXCEPT !.code = 503, !.msg = "OTP auth not available."],
        otp |-> o, matched |-> FALSE]

\* the otpauth branch of phrase=getservercert on the entry ptr names
getservercert_otp(sess, o, otpauth) ==
  IF o.pin = "" \/ o.expired
  THEN LET t == [EmptyTree EXCEPT !.code = 503, !.msg = "OTP auth not available."]
           r == getservercert(sess, t, "rand")
       IN [sess |-> r.sess, tree |-> r.tree, otp |-> OtpCleared, matched |-> FALSE]
  ELSE IF otp_hash(o.pin, sess.salt, o.passphrase) = otpauth
  THEN LET named == IF o.device_name # <<>>
                    THEN [sess EXCEPT !.client.name = o.device_name]
                    ELSE sess
           r == getservercert(named, EmptyTree, o.pin)
       IN [sess |-> r.sess, tree |-> r.tree, otp |-> OtpCleared, matched |-> TRUE]
  ELSE LET r == getservercert(sess, EmptyTree, "rand")
       IN [sess |-> r.sess, tree |-> r.tree, otp |-> o, matched |-> FALSE]

\* the fail guard of pair() with fg.disable() missing
guard_never_disabled(disabled) == 1

\* the fail guard of pair(): the responses it writes when the handler is left,
\* none once fg.disable() was called
guard_writes(disabled) == IF disabled THEN 0 ELSE 1

\* pair() with phrase=getservercert
PairGetServerCert(tunnel, uniqID, deviceName, cert, salt, missing, otpauth, stdin_pin) ==
  /\ Dispatched(tunnel)
  /\ LET m == getservercert_insert(map_id_sess, uniqID, deviceName, cert, salt, missing)
         arg == [missing |-> missing, cert |-> cert, name |-> deviceName,
                 otpauth |-> otpauth]
     IN IF missing # "none"
        THEN \* std::out_of_range leaves the handler; the guard writes the tree
             /\ map_id_sess' = m
             /\ otp' = otp
             /\ last' = Obs("getservercert", uniqID, EmptyTree, guard_writes(FALSE),
                            "none", arg)
        ELSE IF otpauth # NoOtpAuth
        THEN LET r == getservercert_otp(m[uniqID], otp, otpauth)
             IN /\ map_id_sess' = [m EXCEPT ![uniqID] = r.sess]
                /\ otp' = r.otp
                /\ last' = Obs("getservercert", uniqID, r.tree, guard_writes(FALSE),
                               "none", arg)
        ELSE IF config.PIN_STDIN
        THEN LET r == getservercert(m[uniqID], EmptyTree, stdin_pin)
             IN /\ map_id_sess' = [m EXCEPT ![uniqID] = r.sess]
                /\ otp' = otp
                /\ last' = Obs("getservercert", uniqID, r.tree, guard_writes(FALSE),
                               "none", arg)
        ELSE /\ map_id_sess' = [m EXCEPT ![uniqID].response = tunnel]
             /\ otp' = otp
             /\ last' = Obs("getservercert", uniqID, EmptyTree, guard_writes(TRUE),
                            "none", arg)
  /\ UNCHANGED <<streamvars, threads, config, started, crashed, client_root, cert_chain, file_state,
                 uuid_counter>>

\* pair() with phrase=pairchallenge, with any other phrase (no branch puts
\* anything in the tree), and with none of the recognised parameters
PairOther(tunnel, uniqID, kind) ==
  /\ Dispatched(tunnel)
  /\ last' = Obs(kind, uniqID,
                 CASE kind = "pairchallenge" -> Tree(200, 1, "", "none")
                   [] kind = "otherphrase" -> EmptyTree
                   [] OTHER -> Tree(404, -1, "Invalid pairing request", "none"),
                 1, "none", NoArg)
  /\ UNCHANGED <<streamvars, threads,
                 config, started, crashed, map_id_sess, client_root, cert_chain,
                 file_state, uuid_counter, otp>>

\* what an invalid access does: it traps ("trap": the process ends), or it
\* reads whatever is there; a comparison of such bytes comes out either way
UbOutcomes == {"trap", "equal", "differ"}

Trap(op, u, ub, arg) ==
  /\ crashed' = TRUE
  /\ last' = Obs(op, u, EmptyTree, 0, ub, arg)
  /\ UNCHANGED <<streamvars, threads,
                 config, started, map_id_sess, client_root, cert_chain, file_state,
                 uuid_counter, otp>>

\* sess_it->second with sess_it == end(): the handler runs on no session.
\* When nothing traps, what it read and wrote is not part of the map.
NoSession(op, u) ==
  \E ubo \in {"trap", "run"} :
    IF ubo = "trap" THEN Trap(op, u, "end_iterator", NoArg)
    ELSE /\ last' = Obs(op, u, EmptyTree, 1, "end_iterator", NoArg)
         /\ UNCHANGED <<streamvars, threads,
                        config, started, crashed, map_id_sess, client_root, cert_chain,
                        file_state, uuid_counter, otp>>

\* *sess.cipher_key: the key the cipher is built from; a null pointer is an
\* invalid read that traps or yields a key that is nobody's
cipher_keys(sess) ==
  IF sess.cipher_key = NoKey THEN {NoKey, UndefKey} ELSE {sess.cipher_key}

\* pair() with clientchallenge (and no phrase)
PairClientChallenge(tunnel, uniqID, serversecret, serverchallenge) ==
  /\ Dispatched(tunnel)
  /\ IF uniqID \notin DOMAIN map_id_sess THEN NoSession("clientchallenge", uniqID)
     ELSE \E key \in cipher_keys(map_id_sess[uniqID]) :
       LET sess == map_id_sess[uniqID]
           r == clientchallenge(sess, key, serversecret, serverchallenge)
       IN IF key = NoKey
          THEN Trap("clientchallenge", uniqID, "null_key", NoArg)
          ELSE /\ map_id_sess' = [map_id_sess EXCEPT ![uniqID] = r.sess]
               /\ last' = Obs("clientchallenge", uniqID, r.tree, 1,
                              IF key = UndefKey THEN "null_key" ELSE "none", NoArg)
               /\ UNCHANGED <<streamvars, threads,
                              config, started, crashed, client_root, cert_chain,
                              file_state, uuid_counter, otp>>

\* pair() with serverchallengeresp (and no phrase, no clientchallenge)
PairServerChallengeResp(tunnel, uniqID, encrypted_response) ==
  /\ Dispatched(tunnel)
  /\ IF uniqID \notin DOMAIN map_id_sess
     THEN NoSession("serverchallengeresp", uniqID)
     ELSE \E key \in cipher_keys(map_id_sess[uniqID]) :
       LET sess == map_id_sess[uniqID]
           r == serverchallengeresp(sess, key, encrypted_response)
       IN IF key = NoKey
          THEN Trap("serverchallengeresp", uniqID, "null_key", NoArg)
          ELSE /\ map_id_sess' = [map_id_sess EXCEPT ![uniqID] = r.sess]
               /\ last' = Obs("serverchallengeresp", uniqID, r.tree, 1,
                              IF key = UndefKey THEN "null_key" ELSE "none", NoArg)
               /\ UNCHANGED <<streamvars, threads,
                              config, started, crashed, client_root, cert_chain,
                              file_state, uuid_counter, otp>>

\* clientpairingsecret with the size test of the payload off by one: a
\* payload of exactly 16 bytes goes on to the comparison
clientpairingsecret_lt(m, st, sess, pairingsecret, equal, uuid, fresh_state, io) ==
  IF pairingsecret.len < SecretLen
  THEN [map |-> m, store |-> st,
        tree |-> Tree(400, 0, "Clientpairingsecret too short", "none")]
  ELSE IF equal /\ verify256(sess.client.cert, pairingsecret.secret, pairingsecret.sign)
  THEN [map |-> erase(m, sess.client.uniqueID),
        store |-> add_authorized_client([st EXCEPT !.uuid_counter = uuid],
                                        accepted_cert(sess, uuid), fresh_state, io),
        tree |-> Tree(200, 1, "", "none")]
  ELSE [map |-> erase(m, sess.client.uniqueID), store |-> st,
        tree |-> Tree(200, 0, "", "none")]

\* clientpairingsecret(sess, tree, args) on a session of the map.  equal is
\* the result of the memcmp, uuid the uuid generated for an accepted client.
clientpairingsecret(m, st, sess, pairingsecret, equal, uuid, fresh_state, io) ==
  IF pairingsecret.len <= SecretLen
  THEN [map |-> m, store |-> st,
        tree |-> Tree(400, 0, "Clientpairingsecret too short", "none")]
  ELSE IF equal /\ verify256(sess.client.cert, pairingsecret.secret, pairingsecret.sign)
  THEN [map |-> erase(m, sess.client.uniqueID),
        store |-> add_authorized_client([st EXCEPT !.uuid_counter = uuid],
                                        accepted_cert(sess, uuid), fresh_state, io),
        tree |-> Tree(200, 1, "", "none")]
  ELSE [map |-> erase(m, sess.client.uniqueID), store |-> st,
        tree |-> Tree(200, 0, "", "none")]

\* the results the memcmp of phase 4 can have: over the 32 bytes of a
\* clienthash that has them it is the comparison; over a shorter clienthash it
\* reads past the end, which traps or compares whatever lies there
memcmp_results(h, clienthash) ==
  IF clienthash.len < HashLen THEN UbOutcomes
  ELSE IF memcmp_equal(h, clienthash) THEN {"equal"} ELSE {"differ"}

\* pair() with clientpairingsecret (and none of the parameters tested before it)
PairClientPairingSecret(tunnel, uniqID, pairingsecret, io) ==
  /\ Dispatched(tunnel)
  /\ UuidRoom(1)
  /\ IF uniqID \notin DOMAIN map_id_sess
     THEN NoSession("clientpairingsecret", uniqID)
     ELSE LET sess == map_id_sess[uniqID]
              long == pairingsecret.len > SecretLen
              h == expected_hash(sess, pairingsecret.secret)
              overread == long /\ sess.clienthash.len < HashLen
          IN \E cmp \in (IF long THEN memcmp_results(h, sess.clienthash) ELSE {"differ"}) :
               LET r == clientpairingsecret(map_id_sess, Store, sess, pairingsecret,
                                            cmp = "equal", uuid_counter + 1,
                                            config.FRESH_STATE, io)
                   arg == [len |-> pairingsecret.len,
                           cert |-> sess.client.cert,
                           hash_is_clienthash |-> sess.clienthash = Bytes(HashLen, h),
                           equal |-> cmp = "equal",
                           verified |-> verify256(sess.client.cert, pairingsecret.secret,
                                                  pairingsecret.sign)]
               IN IF cmp = "trap"
                  THEN Trap("clientpairingsecret", uniqID, "memcmp_overread", arg)
                  ELSE /\ map_id_sess' = r.map
                       /\ SetStore(r.store)
                       /\ last' = Obs("clientpairingsecret", uniqID, r.tree, 1,
                                      IF overread THEN "memcmp_overread" ELSE "none", arg)
                       /\ UNCHANGED <<streamvars, threads, config, started, crashed, otp>>

(************************** the PIN entry channel **************************)
\* pin(pin, name) on the session std::begin(map_id_sess) names: the session
\* after the call, the document, and whether a suspended response was written
\* pin() without the reset of async_response after the write
pin_keeps_handle(sess, pin_text, name) ==
  LET r == getservercert(sess, EmptyTree, pin_text)
      named == IF name # <<>> THEN [r.sess EXCEPT !.client.name = name] ELSE r.sess
  IN [sess |-> named, tree |-> r.tree, wrote |-> named.response # NoResponse]

\* pin(pin, name) from line 732 on
pin(sess, pin_text, name) ==
  LET r == getservercert(sess, EmptyTree, pin_text)
      named == IF name # <<>> THEN [r.sess EXCEPT !.client.name = name] ELSE r.sess
  IN IF named.response # NoResponse
     THEN [sess |-> [named EXCEPT !.response = NoResponse], tree |-> r.tree,
           wrote |-> TRUE]
     ELSE [sess |-> named, tree |-> r.tree, wrote |-> FALSE]

\* the early returns of pin() with the numeric test left out
pin_rejects_any_text(m, pin_arg) == m = NoSessions \/ pin_arg.len # 4

\* the early returns of pin(): an empty map, a pin that is not 4 characters,
\* a pin that is not all digits
pin_rejects(m, pin_arg) == m = NoSessions \/ pin_arg.len # 4 \/ ~pin_arg.numeric

\* pin(): the order of the unordered map decides which session is the first
Pin(pin_arg, name, first) ==
  /\ Running
  /\ IF pin_rejects(map_id_sess, pin_arg)
     THEN /\ first = "u1"
          /\ map_id_sess' = map_id_sess
          /\ last' = Obs("pin", "", EmptyTree, 0, "none",
                         [returned |-> FALSE, wrote |-> FALSE, to |-> NoResponse,
                          pin |-> pin_arg])
     ELSE /\ first \in DOMAIN map_id_sess
          /\ LET r == pin(map_id_sess[first], pin_arg.id, name)
             IN /\ map_id_sess' = [map_id_sess EXCEPT ![first] = r.sess]
                /\ last' = Obs("pin", first, r.tree, 0, "none",
                               [returned |-> r.wrote, wrote |-> r.wrote,
                                to |-> map_id_sess[first].response, pin |-> pin_arg])
  /\ UNCHANGED <<streamvars, threads, config, started, crashed, client_root, cert_chain, file_state,
                 uuid_counter, otp>>

\* request_otp(passphrase, deviceName); one_time_pin is what rand_alphabet drew
RequestOtp(passphrase, deviceName, one_time_pin) ==
  /\ Running
  /\ IF passphrase.len < 4
     THEN /\ otp' = otp
          /\ last' = Obs("request_otp", "", EmptyTree, 0, "none", [returned |-> ""])
     ELSE /\ otp' = [pin |-> one_time_pin, passphrase |-> passphrase.id,
                     device_name |-> deviceName, expired |-> FALSE, uses |-> 0]
          /\ last' = Obs("request_otp", "", EmptyTree, 0, "none",
                         [returned |-> one_time_pin])
  /\ UNCHANGED <<streamvars, threads,
                 config, started, crashed, map_id_sess, client_root, cert_chain,
                 file_state, uuid_counter>>

\* OTP_EXPIRE_DURATION passes after otp_creation_time
OtpExpires ==
  /\ Running
  /\ otp.pin # ""
  /\ ~otp.expired
  /\ otp' = [otp EXCEPT !.expired = TRUE]
  /\ last' = Obs("time", "", EmptyTree, 0, "none", NoArg)
  /\ UNCHANGED <<streamvars, threads,
                 config, started, crashed, map_id_sess, client_root, cert_chain,
                 file_state, uuid_counter>>

(**************************** store operations *****************************)
EraseAllClients(io) ==
  /\ Running
  /\ UuidRoom(0)
  /\ SetStore(erase_all_clients(Store, io))
  /\ last' = Obs("erase_all_clients", "", EmptyTree, 0, "none",
                 NoArg)
  /\ UNCHANGED <<streamvars, threads, config, started, crashed, map_id_sess, otp>>

UnpairClient(uuid, io) ==
  /\ Running
  /\ UuidRoom(0)
  /\ LET r == unpair_client(Store, uuid, io)
     IN /\ SetStore(r.store)
        /\ last' = Obs("unpair_client", "", EmptyTree, 0, "none",
                       [uuid |-> uuid, removed |-> r.removed])
  /\ UNCHANGED <<streamvars, threads, config, started, crashed, map_id_sess, otp>>

(***************************** the next step *******************************)
\* what the clients of the model send
PairingSecrets ==
  {[len |-> n, secret |-> "x", sign |-> [signer |-> c, msg |-> x]] :
     n \in {16, 272}, c \in Certs, x \in {"x", "y"}}

ClientKeys == {gen_aes_key(s, p) : s \in {t \in Salts : t.len >= SaltHexLen}, p \in Pins}

\* the certificate the pairing client of the model presents
ClientCerts == {"c1"}

ClientHashes ==
  {hash(sc, signature(c), "x") : sc \in {0} \cup Nonces, c \in ClientCerts}

ChallengeResponses ==
  {Enc(k, Bytes(n, h)) : k \in ClientKeys, n \in {32, 48}, h \in ClientHashes}

\* The pairing handshake against any client: every request shape, every
\* payload of the sets above, in any order.
Init == InitWith({c \in Configs : ~c.FRESH_STATE}, {FileMissing})

Next ==
  \/ \E rd \in BOOLEAN : Start(rd)
  \/ \E b \in BOOLEAN : PairRefused(b)
  \/ \E t \in {"HTTP"}, u \in UniqueIds, n \in DeviceNames, c \in ClientCerts, s \in Salts,
        o \in OtpAuths(GoodSalt), p \in Pins :
       PairGetServerCert(t, u, n, c, s, "none", o, p)
  \/ \E t \in {"HTTP"}, u \in UniqueIds, n \in DeviceNames, c \in ClientCerts,
        missing \in {"devicename", "clientcert", "salt"}, p \in Pins :
       PairGetServerCert(t, u, n, c, GoodSalt, missing, NoOtpAuth, p)
  \/ \E t \in {"HTTP"}, u \in UniqueIds, k \in {"pairchallenge", "otherphrase", "invalid"} :
       PairOther(t, u, k)
  \/ \E t \in {"HTTP"}, u \in UniqueIds, n1 \in Nonces, n2 \in Nonces :
       PairClientChallenge(t, u, n1, n2)
  \/ \E t \in {"HTTP"}, u \in UniqueIds, e \in ChallengeResponses :
       PairServerChallengeResp(t, u, e)
  \/ \E t \in {"HTTP"}, u \in UniqueIds, ps \in PairingSecrets :
       PairClientPairingSecret(t, u, ps, IoOk)
  \/ \E pa \in PinArgs, n \in PinNames, u \in UniqueIds : Pin(pa, n, u)

Spec == Init /\ [][Next]_vars

\* The client store under pairings that succeed, unpair_client and
\* erase_all_clients, with every outcome of the file system.  The client here
\* is one that knows the PIN and runs the four phases in order: it answers
\* the challenge with the digest the server expects and signs its secret.
HonestResponse(sess) == Enc(sess.cipher_key, Bytes(HashLen, expected_hash(sess, "x")))

HonestSecret(sess) ==
  [len |-> 272, secret |-> "x", sign |-> [signer |-> sess.client.cert, msg |-> "x"]]

InitStore ==
  InitWith({c \in Configs : c.enable_pairing /\ c.PIN_STDIN},
           {FileMissing, StateFile(<<>>, <<NamedCert(<<"A">>, "c1", 0)>>)})

\* one step of the store with the file system behaving as one of ios
StoreStep(ios) ==
  \/ Start(TRUE)
  \/ \E t \in Tunnels, u \in UniqueIds, n \in DeviceNames, c \in Certs, p \in Pins :
       /\ u \notin DOMAIN map_id_sess
       /\ PairGetServerCert(t, u, n, c, GoodSalt, "none", NoOtpAuth, p)
  \/ \E t \in Tunnels, u \in UniqueIds :
       /\ u \in DOMAIN map_id_sess
       /\ map_id_sess[u].serverchallenge = 0
       /\ PairClientChallenge(t, u, 1, 1)
  \/ \E t \in Tunnels, u \in UniqueIds :
       /\ u \in DOMAIN map_id_sess
       /\ map_id_sess[u].serverchallenge # 0
       /\ map_id_sess[u].clienthash = EmptyBytes
       /\ PairServerChallengeResp(t, u, HonestResponse(map_id_sess[u]))
  \/ \E t \in Tunnels, u \in UniqueIds, io \in ios :
       /\ u \in DOMAIN map_id_sess
       /\ map_id_sess[u].clienthash # EmptyBytes
       /\ PairClientPairingSecret(t, u, HonestSecret(map_id_sess[u]), io)
  \/ \E io \in ios : EraseAllClients(io)
  \/ \E uuid \in 0..MaxUuid, io \in ios : UnpairClient(uuid, io)

\* every read and write of the state file succeeds
NextStore == StoreStep({IoOk})

SpecStore == InitStore /\ [][NextStore]_vars

\* reads and writes of the state file may fail
NextStoreIo == StoreStep(IoOutcomes)

SpecStoreIo == InitStore /\ [][NextStoreIo]_vars

(************************* the pairing handshake ***************************)
\* a step that is pair() running op on a session the map holds
PhaseStep(op) ==
  /\ last'.op = op
  /\ last'.u \in DOMAIN map_id_sess

StoreCerts(devs, cert) == {i \in 1..Len(devs) : devs[i].cert = cert}

\* C1: a phrase=getservercert request whose uniqueid already has an entry
\* replaces that entry: afterwards the entry holds the request's certificate
\* and device name, and no client hash, server secret or server challenge (nor
\* a cipher key other than the one just derived) of the earlier session.
C1_GetServerCertReplaces ==
  [][(PhaseStep("getservercert") /\ last'.arg.missing = "none")
       => LET e == map_id_sess'[last'.u]
          IN /\ e.client.cert = last'.arg.cert
             /\ e.client.name = last'.arg.name
             /\ e.clienthash = EmptyBytes
             /\ e.serversecret = 0
             /\ e.serverchallenge = 0
             /\ e.cipher_key \in {NoKey} \cup {gen_aes_key(e.salt, p) : p \in Pins \cup {"rand"}}]_vars

\* C2: for a clientpairingsecret request with a payload longer than 16 bytes
\* the certificate is added to the store iff the expected hash is the stored
\* clienthash and the signature verifies; then the session is gone, exactly
\* one store entry has the certificate and the response is paired=1, 200.
C2_AddedIffAuthenticated ==
  [][(PhaseStep("clientpairingsecret") /\ last'.arg.len > SecretLen)
       => IF last'.arg.hash_is_clienthash /\ last'.arg.verified
          THEN /\ last'.u \notin DOMAIN map_id_sess'
               /\ Cardinality(StoreCerts(client_root', last'.arg.cert)) = 1
               /\ last'.tree = Tree(200, 1, "", "none")
               /\ last'.written = 1
          ELSE /\ client_root' = client_root
               /\ last'.tree.paired # 1]_vars

\* C3: when a clientpairingsecret request with a payload longer than 16 bytes
\* fails the hash comparison or the signature verification, the session is
\* erased, the response is paired=0 with status_code 200, and the client store
\* is unchanged in memory and on disk.
C3_FailureErasesSession ==
  [][(/\ PhaseStep("clientpairingsecret")
      /\ last'.arg.len > SecretLen
      /\ ~(last'.arg.hash_is_clienthash /\ last'.arg.verified))
       => /\ last'.u \notin DOMAIN map_id_sess'
          /\ last'.tree = Tree(200, 0, "", "none")
          /\ last'.written = 1
          /\ client_root' = client_root
          /\ cert_chain' = cert_chain
          /\ file_state' = file_state]_vars

\* C4: a clientpairingsecret request whose payload is 16 bytes or shorter is
\* answered paired=0, status_code 400, "Clientpairingsecret too short", and
\* changes nothing: the session keeps all its fields and the store is as it was.
C4_ShortSecretChangesNothing ==
  [][(PhaseStep("clientpairingsecret") /\ last'.arg.len <= SecretLen)
       => /\ last'.tree = Tree(400, 0, "Clientpairingsecret too short", "none")
          /\ last'.written = 1
          /\ ~crashed'
          /\ map_id_sess' = map_id_sess
          /\ client_root' = client_root
          /\ cert_chain' = cert_chain
          /\ file_state' = file_state]_vars

\* a 16-byte payload was refused for a session that had gone through phases
\* 2 and 3, and the session is still there with what they left in it
C4_Witness ==
  /\ last.op = "clientpairingsecret"
  /\ last.ub = "none"
  /\ last.arg.len = SecretLen
  /\ last.tree.code = 400
  /\ last.u \in DOMAIN map_id_sess
  /\ map_id_sess[last.u].clienthash.len = HashLen
  /\ map_id_sess[last.u].serverchallenge # 0

\* C5: a clientchallenge, serverchallengeresp or clientpairingsecret request
\* whose uniqueid has no entry in the map never has its handler applied to
\* the result of the failed lookup, and does not end the process.
C5_HandlerOnlyOnFoundSession ==
  last.op \in {"clientchallenge", "serverchallengeresp", "clientpairingsecret"}
    => last.ub # "end_iterator"

\* C6: the clientchallenge and serverchallengeresp handlers read the cipher
\* key of a session only when the session has one.
C6_KeyUsedOnlyWhenPresent ==
  last.op \in {"clientchallenge", "serverchallengeresp"} => last.ub # "null_key"

(***************************** the client store ****************************)
CertsOf(devs) == {devs[i].cert : i \in 1..Len(devs)}

\* the entries of a store without their names, which save_state may rewrite
Unnamed(devs) == [i \in 1..Len(devs) |-> [cert |-> devs[i].cert, uuid |-> devs[i].uuid]]

\* a step that is a phase 4 which accepted the client
PairedStep ==
  /\ last'.op = "clientpairingsecret"
  /\ last'.tree.paired = 1

\* C7: in every state reached by successful pairings, unpair_client and
\* erase_all_clients no two entries of the in-memory store have the same
\* certificate; when a certificate already stored is paired again the earlier
\* entry, with its uuid and name, is the one that remains.
C7_NoDuplicateCerts ==
  [][/\ \A i, j \in 1..Len(client_root') :
          client_root'[i].cert = client_root'[j].cert => i = j
     /\ (PairedStep /\ last'.arg.cert \in CertsOf(client_root))
          => \A i \in 1..Len(client_root') :
               client_root'[i].cert = last'.arg.cert
                 => \E j \in 1..Len(client_root) : client_root[j] = client_root'[i]]_vars

\* C8: after add_authorized_client at the end of a successful phase 4, after
\* unpair_client and after erase_all_clients the certificates the verifier
\* accepts are the certificates of the in-memory store; the client whose
\* phase 4 just succeeded is accepted and gets its named certificate.
C8_VerifierMatchesStore ==
  [][(PairedStep \/ last'.op \in {"unpair_client", "erase_all_clients"})
       => /\ CertsOf(cert_chain') = CertsOf(client_root')
          /\ PairedStep
               => /\ verify_accepts(cert_chain', last'.arg.cert)
                  /\ verify_match(cert_chain', last'.arg.cert) \in Range(client_root')]_vars

\* C9: after erase_all_clients the in-memory store is empty and the verifier
\* rejects every certificate that was paired before the call.
C9_EraseAllRejectsAll ==
  [][last'.op = "erase_all_clients"
       => /\ client_root' = <<>>
          /\ \A c \in CertsOf(client_root) \cup CertsOf(cert_chain) :
               ~verify_accepts(cert_chain', c)]_vars

\* C10: unpair_client(uuid) returns the number of entries with that uuid;
\* afterwards no entry has the uuid, the other entries are there in their
\* order, and the verifier no longer accepts the certificates removed.
C10_UnpairRemovesUuid ==
  [][last'.op = "unpair_client"
       => LET uuid == last'.arg.uuid
              gone == SelectSeq(client_root, LAMBDA d : d.uuid = uuid)
          IN /\ last'.arg.removed = Len(gone)
             /\ \A i \in 1..Len(client_root') : client_root'[i].uuid # uuid
             /\ Unnamed(client_root') = Unnamed(unpair_filter(client_root, uuid))
             /\ \A c \in CertsOf(gone) : ~verify_accepts(cert_chain', c)]_vars

(************************** the PIN entry channel **************************)
\* Two clients pairing at once while PINs are entered through pin().
PinUniqueIds == {"u1", "u2"}

InitPin == InitWith({c \in Configs : c.enable_pairing /\ ~c.FRESH_STATE}, {FileMissing})

NextPin ==
  \/ Start(TRUE)
  \/ \E t \in Tunnels, u \in PinUniqueIds, s \in Salts, p \in Pins :
       PairGetServerCert(t, u, <<"A">>, "c1", s, "none", NoOtpAuth, p)
  \/ \E pa \in PinArgs, n \in PinNames, u \in PinUniqueIds : Pin(pa, n, u)

SpecPin == InitPin /\ [][NextPin]_vars

\* a step that is pin() called with pin text it accepts on a non-empty map
PinRuns ==
  /\ last'.op = "pin"
  /\ ~pin_rejects(map_id_sess, last'.arg.pin)

Suspended(m) == {u \in DOMAIN m : m[u].response # NoResponse}

\* C11: pin(pin, name) returns false, writes to no response handle and leaves
\* every pairing session unchanged when the map is empty, pin is not exactly
\* 4 characters long, or pin contains a character that is not a digit.
C11_PinRejectsChangeNothing ==
  [][(/\ last'.op = "pin"
      /\ \/ map_id_sess = NoSessions
         \/ last'.arg.pin.len # 4
         \/ ~last'.arg.pin.numeric)
       => /\ ~last'.arg.returned
          /\ ~last'.arg.wrote
          /\ last'.written = 0
          /\ map_id_sess' = map_id_sess]_vars

\* pin() refused a 4-character pin with a letter in it while a session was
\* waiting for its PIN, and the session still waits
C11_Witness ==
  /\ last.op = "pin"
  /\ ~last.arg.pin.numeric
  /\ last.arg.pin.len = 4
  /\ ~last.arg.returned
  /\ Suspended(map_id_sess) # {}

\* C12: pin() with a valid PIN on a non-empty map returns true exactly when it
\* wrote the document to the suspended response of the session it selected;
\* the write clears the handle, so the session has none afterwards (a second
\* pin() on it returns false) and no other session is touched.
C12_PinWritesOnce ==
  [][PinRuns
       => LET u == last'.u
          IN /\ last'.arg.returned <=> last'.arg.wrote
             /\ last'.arg.wrote <=> map_id_sess[u].response # NoResponse
             /\ last'.arg.wrote => last'.arg.to = map_id_sess[u].response
             /\ map_id_sess'[u].response = NoResponse
             /\ \A v \in DOMAIN map_id_sess : v # u => map_id_sess'[v] = map_id_sess[v]]_vars

\* pin() wrote a key-derivation result to the response a getservercert left
\* suspended, and returned true
C12_Witness ==
  /\ last.op = "pin"
  /\ last.arg.returned
  /\ last.arg.to # NoResponse
  /\ last.tree.paired = 1
  /\ map_id_sess[last.u].response = NoResponse

\* C13: whenever some session holds a suspended getservercert response, pin()
\* with a valid 4-digit PIN writes to a suspended handle and returns true,
\* whatever other sessions are in the map.
C13_PinCompletesASuspended ==
  [][(PinRuns /\ Suspended(map_id_sess) # {})
       => /\ last'.arg.returned
          /\ last'.arg.wrote
          /\ last'.u \in Suspended(map_id_sess)]_vars

(*************************** responses of /pair ****************************)
PairOps ==
  {"pair_refused", "getservercert", "pairchallenge", "otherphrase", "invalid",
   "clientchallenge", "serverchallengeresp", "clientpairingsecret"}

\* the step is the getservercert that waits for pin(): well-formed, without
\* otpauth, PIN_STDIN unset
AsyncStep ==
  /\ last'.op = "getservercert"
  /\ last'.arg.missing = "none"
  /\ last'.arg.otpauth = NoOtpAuth
  /\ ~config.PIN_STDIN

OtpPins == {"1234", "5678"}

\* the otpauth values clients send for a salt
OtpGuesses(salt) == {otp_hash(p, salt, "hunter2") : p \in OtpPins}

InitOtp == InitWith({c \in Configs : c.enable_pairing /\ ~c.FRESH_STATE}, {FileMissing})

NextOtp ==
  \/ Start(TRUE)
  \/ \E pp \in Passphrases, n \in OtpDeviceNames, p \in OtpPins : RequestOtp(pp, n, p)
  \/ OtpExpires
  \/ \E u \in UniqueIds, n \in DeviceNames, s \in Salts, p \in Pins :
       \E o \in {NoOtpAuth} \cup OtpGuesses(s) :
         PairGetServerCert("HTTP", u, n, "c1", s, "none", o, p)
  \/ \E pa \in PinArgs, n \in PinNames, u \in UniqueIds : Pin(pa, n, u)

SpecOtp == InitOtp /\ [][NextOtp]_vars

\* a step that is a well-formed getservercert carrying otpauth
OtpStep ==
  /\ last'.op = "getservercert"
  /\ last'.arg.missing = "none"
  /\ last'.arg.otpauth # NoOtpAuth

OtpAvailable == otp.pin # "" /\ ~otp.expired

\* C15: a getservercert carrying otpauth, received when no OTP is registered
\* or the registered one has expired, is answered status_code 503,
\* "OTP auth not available.", and the OTP state is cleared.
C15_NoOtpAnswers503 ==
  [][(OtpStep /\ ~OtpAvailable)
       => /\ last'.tree.code = 503
          /\ last'.tree.msg = "OTP auth not available."
          /\ otp' = OtpCleared]_vars

\* C17: while an unexpired OTP is registered, a getservercert carrying otpauth
\* with a salt of at least 32 characters gets paired=1, plaincert, 200 whether
\* otpauth matches or not; on a mismatch the key comes from 16 random bytes
\* and the registered OTP stays.
C17_MismatchLooksLikeMatch ==
  [][(OtpStep /\ OtpAvailable /\ map_id_sess'[last'.u].salt.len >= SaltHexLen)
       => LET sess == map_id_sess'[last'.u]
          IN /\ last'.tree = Tree(200, 1, "", "plaincert")
             /\ last'.written = 1
             /\ otp_hash(otp.pin, sess.salt, otp.passphrase) # last'.arg.otpauth
                  => /\ sess.cipher_key = gen_aes_key(sess.salt, "rand")
                     /\ otp' = otp]_vars

\* an otpauth that does not match the registered OTP was answered paired=1
\* and the OTP is still registered
C17_Witness ==
  /\ last.op = "getservercert"
  /\ last.arg.otpauth # NoOtpAuth
  /\ last.tree.paired = 1
  /\ otp.pin # ""
  /\ ~otp.expired
  /\ map_id_sess[last.u].cipher_key = gen_aes_key(map_id_sess[last.u].salt, "rand")

\* a step in which getservercert(sess, tree, pin) ran on the session last'.u
DerivationStep ==
  \/ /\ last'.op = "getservercert"
     /\ last'.arg.missing = "none"
     /\ last'.arg.otpauth # NoOtpAuth \/ config.PIN_STDIN
  \/ /\ last'.op = "pin"
     /\ ~pin_rejects(map_id_sess, last'.arg.pin)

\* C18: whenever the key-derivation step runs for a session whose salt is
\* shorter than 32 characters (stdin path, OTP path or pin()), the document is
\* paired=0, 400, "Salt too short" and the step stores no cipher key in the
\* session.
C18_ShortSaltDerivesNothing ==
  [][(DerivationStep /\ map_id_sess'[last'.u].salt.len < SaltHexLen)
       => /\ last'.tree = Tree(400, 0, "Salt too short", "none")
          /\ map_id_sess'[last'.u].cipher_key =
               IF last'.u \in DOMAIN map_id_sess
               THEN map_id_sess[last'.u].cipher_key ELSE NoKey]_vars

\* pin() ran the key derivation on a suspended session with a short salt and
\* wrote "Salt too short" to its response
C18_Witness ==
  /\ last.op = "pin"
  /\ last.arg.wrote
  /\ last.tree.msg = "Salt too short"
  /\ map_id_sess[last.u].cipher_key = NoKey

(******************* otpauth requests on both server threads ***************)
\* The HTTPS and the HTTP server run pair() on a thread each (start()), with
\* nothing serialising them.  Here the otpauth branch of getservercert runs
\* in the steps a thread switch can separate: the test of the OTP and of the
\* hash, the key derivation, the clearing of the OTP.

\* lines 612-650 and, unless otpauth matched, the rest of the handler
OtpBegin(t, uniqID, deviceName, cert, salt, otpauth) ==
  /\ Dispatched(t)
  /\ threads[t] = Idle
  /\ LET m == getservercert_insert(map_id_sess, uniqID, deviceName, cert, salt, "none")
         arg == [missing |-> "none", cert |-> cert, name |-> deviceName,
                 otpauth |-> otpauth]
     IN IF OtpAvailable /\ otp_hash(otp.pin, salt, otp.passphrase) = otpauth
        THEN /\ map_id_sess' = m
             /\ threads' = [threads EXCEPT ![t] = [pc |-> "matched", u |-> uniqID]]
             /\ otp' = otp
             /\ last' = Obs("otp_matched", uniqID, EmptyTree, 0, "none", arg)
        ELSE LET r == getservercert_otp(m[uniqID], otp, otpauth)
             IN /\ map_id_sess' = [m EXCEPT ![uniqID] = r.sess]
                /\ threads' = threads
                /\ otp' = r.otp
                /\ last' = Obs("getservercert", uniqID, r.tree, guard_writes(FALSE),
                               "none", arg)
  /\ UNCHANGED <<streamvars, config, started, crashed, client_root, cert_chain, file_state,
                 uuid_counter>>

\* lines 652-656: the name moved out of otp_device_name, the key derived from
\* one_time_pin as it is now
OtpDerive(t) ==
  /\ Running
  /\ threads[t].pc = "matched"
  /\ LET u == threads[t].u
         sess == map_id_sess[u]
         named == IF otp.device_name # <<>>
                  THEN [sess EXCEPT !.client.name = otp.device_name]
                  ELSE sess
         r == getservercert(named, EmptyTree, otp.pin)
     IN /\ map_id_sess' = [map_id_sess EXCEPT ![u] = r.sess]
        /\ otp' = [otp EXCEPT !.device_name = <<>>,
                              !.uses = IF otp.pin # "" /\ r.sess.cipher_key # sess.cipher_key
                                       THEN @ + 1 ELSE @]
        /\ threads' = [threads EXCEPT ![t] = [pc |-> "derived", u |-> u]]
        /\ last' = Obs("otp_derived", u, r.tree, 0, "none", [pin |-> otp.pin])
  /\ UNCHANGED <<streamvars, config, started, crashed, client_root, cert_chain, file_state,
                 uuid_counter>>

\* lines 658-661: the OTP cleared, the handler left, the guard writes
OtpClear(t) ==
  /\ Running
  /\ threads[t].pc = "derived"
  /\ otp' = OtpCleared
  /\ threads' = [threads EXCEPT ![t] = Idle]
  /\ last' = Obs("otp_cleared", threads[t].u,
                 getservercert(map_id_sess[threads[t].u], EmptyTree, "").tree,
                 guard_writes(FALSE), "none", NoArg)
  /\ UNCHANGED <<streamvars, config, started, crashed, map_id_sess, client_root, cert_chain,
                 file_state, uuid_counter>>

InitOtpRace ==
  InitWith({c \in Configs : c.enable_pairing /\ ~c.FRESH_STATE /\ ~c.PIN_STDIN},
           {StateFile(<<>>, <<NamedCert(<<"A">>, "c1", 0)>>)})

NextOtpRace ==
  \/ Start(TRUE)
  \/ \E pp \in Passphrases, n \in OtpDeviceNames, p \in OtpPins : RequestOtp(pp, n, p)
  \/ OtpExpires
  \/ \E t \in Tunnels, u \in PinUniqueIds, s \in Salts, o \in OtpGuesses(GoodSalt) :
       OtpBegin(t, u, <<"B">>, "c1", s, o)
  \/ \E t \in Tunnels : OtpDerive(t)
  \/ \E t \in Tunnels : OtpClear(t)

SpecOtpRace == InitOtpRace /\ [][NextOtpRace]_vars

\* C16: a registered OTP authorises at most one getservercert: once an
\* otpauth matched it (key from the OTP's PIN, name replaced by the OTP's
\* device name when there is one) the OTP is cleared, and no later or
\* concurrent otpauth request derives its key from that OTP's PIN.
C16_OtpAuthorisesOnce ==
  [][/\ otp'.uses <= 1
     /\ last'.op = "otp_cleared" => otp' = OtpCleared
     /\ (/\ last'.op = "getservercert" /\ last'.arg.otpauth # NoOtpAuth
         /\ ~(OtpAvailable /\ otp_hash(otp.pin, map_id_sess'[last'.u].salt,
                                        otp.passphrase) = last'.arg.otpauth))
          => map_id_sess'[last'.u].cipher_key \notin
               {gen_aes_key(map_id_sess'[last'.u].salt, p) : p \in OtpPins}
             \/ (last'.u \in DOMAIN map_id_sess
                 /\ map_id_sess'[last'.u].cipher_key = map_id_sess[last'.u].cipher_key)]_vars

(************************* requests pair() turns down **********************)
\* a getservercert request that lacks devicename, clientcert or salt, or
\* whose salt has fewer than SaltHexLen characters
MalformedStep ==
  /\ last'.op = "getservercert"
  /\ \/ last'.arg.missing # "none"
     \/ map_id_sess'[last'.u].salt.len < SaltHexLen

\* C19: a malformed getservercert request (devicename, clientcert or salt
\* missing, or a salt of fewer than 32 characters) does not mutate state: the
\* session map has the same entries with the same contents after it.
C19_MalformedChangesNothing ==
  [][MalformedStep => map_id_sess' = map_id_sess]_vars

\* C20: with pairing enabled, every /pair request with a uniqueid that is
\* none of getservercert, pairchallenge, clientchallenge, serverchallengeresp
\* and clientpairingsecret, a phrase of some other value included, is
\* answered with status_code 404 and "Invalid pairing request".
C20_UnknownRequest404 ==
  last.op \in {"otherphrase", "invalid"}
    => last.tree = Tree(404, -1, "Invalid pairing request", "none")

(******************** serverinfo, launch, resume, cancel *******************)
\* the value of a query parameter that the request does not carry (no text a
\* request can send, whose characters are single)
Absent == <<"absent">>

\* the value of a decimal digit character, -1 for any other character
DigitValue(c) ==
  IF \E d \in 1..10 : Digit[d] = c THEN (CHOOSE d \in 1..10 : Digit[d] = c) - 1 ELSE -1

\* the number read from the digits s[i..], acc being the digits read so far
RECURSIVE ReadDigits(_, _, _)
ReadDigits(s, i, acc) ==
  IF i > Len(s) \/ DigitValue(s[i]) < 0 THEN acc
  ELSE ReadDigits(s, i + 1, acc * 10 + DigitValue(s[i]))

\* util::from_view(text): an optional sign and the leading digits; what
\* follows them is ignored and no digits at all give 0
from_view(text) ==
  IF Len(text) > 0 /\ text[1] = "-" THEN 0 - ReadDigits(text, 2, 0)
  ELSE ReadDigits(text, 1, 0)

\* proc::proc.get_apps(): the ids of the configured apps
Apps == {<<"1">>, <<"2">>}

\* config::stream.channels
Channels == 2

\* platf::get_mac_address(...) and the placeholder sent over HTTP
RealMac == "aa:bb:cc:dd:ee:ff"
PlaceholderMac == "00:00:00:00:00:00"

\* the document launch, resume and cancel build; -1 is an element never put
STree(c, m, r, g, k) == [code |-> c, msg |-> m, resume |-> r, gamesession |-> g, cancel |-> k]
EmptySTree == STree(0, "", -1, -1, -1)

CapacityMessage == "The host's concurrent stream limit has been reached. Stop an existing stream or increase the 'Channels' value in the Sunshine Web UI."
EncryptionMessage == "Encryption is mandatory for this host but unsupported by the client"
ProbeMessage == "Failed to initialize video capture/encoding. Is a display connected and turned on?"

\* make_launch_session(host_audio, args, uuid) with session_id_counter at
\* counter: the descriptor, whose id is the incremented counter
make_launch_session(audio, args, uuid, counter) ==
  [id |-> counter + 1,
   host_audio |-> audio,
   unique_id |-> uuid,
   appid |-> IF args.appid = Absent THEN 0 ELSE from_view(args.appid),
   rtsp_cipher |-> from_view(args.corever) >= 1]

\* the parameters launch refuses to go without
launch_params_missing(args) ==
  \/ args.rikey = Absent
  \/ args.rikeyid = Absent
  \/ args.localAudioPlayMode = Absent
  \/ args.appid = Absent

\* what the pairing and store operations hold; no streaming endpoint writes it
pairvars == <<config, started, crashed, map_id_sess, client_root, cert_chain,
              file_state, uuid_counter, otp, threads>>

\* the verifier of the HTTPS server that accepts every connection
accept_verifies_all(chain, cert) == TRUE

\* https_server.verify: a peer certificate is there and cert_chain.verify
\* finds it
accept_verifies(chain, cert) == cert # NoCert /\ verify_accepts(chain, cert)

\* req->userp after verify
accept_userp(chain, cert) ==
  IF cert # NoCert /\ verify_accepts(chain, cert) THEN verify_match(chain, cert)
  ELSE NoUser

\* the document of on_verify_failed
verify_failed_tree(path) ==
  [code |-> 401, query |-> path,
   msg |-> "The client is not authorized. Certificate verification failed."]

\* SunshineHTTPSServer::accept after the TLS handshake of a peer presenting
\* cert, for a request of path and args: verify, then on_verify_failed or
\* the read that leads to the handler of the path
Accept(cert, path, args) ==
  /\ Running
  /\ conn = NoConn
  /\ IF accept_verifies(cert_chain, cert)
     THEN /\ conn' = [st |-> "read", path |-> path, args |-> args,
                      userp |-> accept_userp(cert_chain, cert)]
          /\ last' = Obs("accept", "", EmptyTree, 0, "none", [cert |-> cert])
     ELSE /\ conn' = NoConn
          /\ last' = Obs("verify_failed", "", verify_failed_tree(path), 1, "none",
                         [cert |-> cert])
  /\ UNCHANGED <<pairvars, host_audio, session_id_counter, app_running, session_count,
                 raised>>

\* the request the HTTPS server has read is for path
Read(path) == Running /\ conn.st = "read" /\ conn.path = path

\* serverinfo<T> sending the MAC address whatever the tunnel
serverinfo_mac_always(tunnel, has_uniqueid, server_cmds, current_appid) ==
  [code |-> 200,
   mac |-> RealMac,
   ServerCommand |-> IF tunnel = "HTTPS" THEN server_cmds ELSE <<>>,
   PairStatus |-> IF tunnel = "HTTPS" /\ has_uniqueid THEN 1 ELSE 0,
   currentgame |-> current_appid,
   state |-> IF current_appid > 0 THEN "SUNSHINE_SERVER_BUSY" ELSE "SUNSHINE_SERVER_FREE"]

\* the document of serverinfo<T>: the fields that depend on the tunnel
serverinfo(tunnel, has_uniqueid, server_cmds, current_appid) ==
  [code |-> 200,
   mac |-> IF tunnel = "HTTPS" THEN RealMac ELSE PlaceholderMac,
   ServerCommand |-> IF tunnel = "HTTPS" THEN server_cmds ELSE <<>>,
   PairStatus |-> IF tunnel = "HTTPS" /\ has_uniqueid THEN 1 ELSE 0,
   currentgame |-> current_appid,
   state |-> IF current_appid > 0 THEN "SUNSHINE_SERVER_BUSY" ELSE "SUNSHINE_SERVER_FREE"]

\* GET /serverinfo on either server; server_cmds is config::sunshine.server_cmds
ServerInfo(tunnel, has_uniqueid, server_cmds) ==
  /\ Running
  /\ IF tunnel = "HTTPS"
     THEN Read("/serverinfo") /\ conn.args.uniqueid = has_uniqueid /\ conn' = NoConn
     ELSE conn' = conn
  /\ last' = Obs("serverinfo", "", serverinfo(tunnel, has_uniqueid, server_cmds, app_running),
                 1, "none",
                 [tunnel |-> tunnel, uniqueid |-> has_uniqueid, server_cmds |-> server_cmds])
  /\ UNCHANGED <<pairvars, host_audio, session_id_counter, app_running, session_count,
                 raised>>

\* GET /applist, /appasset, /pair with phrase=pairchallenge, and the
\* default resource, on the HTTPS server
HttpsOther(path) ==
  /\ Read(path)
  /\ path \in {"/applist", "/appasset", "/pair", "/other"}
  /\ conn' = NoConn
  /\ last' = Obs(CASE path = "/applist" -> "applist"
                   [] path = "/appasset" -> "appasset"
                   [] path = "/pair" -> "pairchallenge"
                   [] OTHER -> "not_found",
                 "",
                 CASE path = "/pair" -> Tree(200, 1, "", "none")
                   [] path = "/other" -> Tree(404, -1, "", "none")
                   [] OTHER -> Tree(200, -1, "", "none"),
                 IF path = "/other" THEN 2 ELSE 1, "none", NoArg)
  /\ UNCHANGED <<pairvars, host_audio, session_id_counter, app_running, session_count,
                 raised>>

\* std::to_string(appid) names a configured app
app_found(appid) == to_string(appid) \in Apps

\* GET /launch.  mandatory: net::encryption_mode_for_address gives
\* ENCRYPTION_MODE_MANDATORY for the peer; err: what proc::proc.execute returns
Launch(mandatory, err) ==
  /\ Read("/launch")
  /\ session_id_counter < MaxSessionId
  /\ conn' = NoConn
  /\ LET args == conn.args
         arg == NoArg
         keep == UNCHANGED <<host_audio, session_id_counter, app_running, raised>>
     IN IF session_count = Channels
        THEN /\ last' = Obs("launch", "", STree(503, CapacityMessage, 0, -1, -1), 1, "none", arg)
             /\ keep
        ELSE IF launch_params_missing(args)
        THEN /\ last' = Obs("launch", "",
                            STree(400, "Missing a required launch parameter", 0, -1, -1),
                            1, "none", arg)
             /\ keep
        ELSE IF app_running > 0
        THEN /\ last' = Obs("launch", "",
                            STree(400, "An app is already running on this host", 0, -1, -1),
                            1, "none", arg)
             /\ keep
        ELSE LET audio == from_view(args.localAudioPlayMode) # 0
                 launch_session == make_launch_session(audio, args, conn.userp.uuid,
                                                       session_id_counter)
                 appid == from_view(args.appid)
             IN /\ host_audio' = audio
                /\ session_id_counter' = launch_session.id
                /\ IF ~launch_session.rtsp_cipher /\ mandatory
                   THEN /\ last' = Obs("launch", "", STree(403, EncryptionMessage, -1, 0, -1),
                                       1, "none", arg)
                        /\ UNCHANGED <<app_running, raised>>
                   ELSE IF appid > 0 /\ ~app_found(appid)
                   THEN /\ last' = Obs("launch", "",
                                       STree(404, "Cannot find requested application", -1, 0, -1),
                                       1, "none", arg)
                        /\ UNCHANGED <<app_running, raised>>
                   ELSE IF appid > 0 /\ err # 0
                   THEN /\ last' = Obs("launch", "",
                                       STree(err, IF err = 503 THEN ProbeMessage
                                                  ELSE "Failed to start the specified application",
                                             -1, 0, -1),
                                       1, "none", arg)
                        /\ UNCHANGED <<app_running, raised>>
                   ELSE /\ last' = Obs("launch", "", STree(200, "", -1, 1, -1), 1, "none", arg)
                        /\ app_running' = IF appid > 0 THEN appid ELSE app_running
                        /\ raised' = launch_session
  /\ UNCHANGED <<pairvars, session_count>>

\* the /resume handler that takes localAudioPlayMode whenever it is sent
resume_takes_audio_always(audio, args, sessions) ==
  IF args.localAudioPlayMode # Absent
  THEN from_view(args.localAudioPlayMode) # 0
  ELSE audio

\* lines 1061-1080 of resume once the encoders were probed: host_audio after
\* them
resume_takes_audio(audio, args, sessions) ==
  IF sessions = 0 /\ args.localAudioPlayMode # Absent
  THEN from_view(args.localAudioPlayMode) # 0
  ELSE audio

\* GET /resume.  probe_failed: video::probe_encoders() returns non-zero
Resume(mandatory, probe_failed) ==
  /\ Read("/resume")
  /\ session_id_counter < MaxSessionId
  /\ conn' = NoConn
  /\ LET args == conn.args
         arg == [audio_before |-> host_audio]
         keep == UNCHANGED <<host_audio, session_id_counter, raised>>
     IN IF session_count = Channels
        THEN /\ last' = Obs("resume", "", STree(503, CapacityMessage, 0, -1, -1), 1, "none", arg)
             /\ keep
        ELSE IF app_running = 0
        THEN /\ last' = Obs("resume", "", STree(503, "No running app to resume", 0, -1, -1),
                            1, "none", arg)
             /\ keep
        ELSE IF args.rikey = Absent \/ args.rikeyid = Absent
        THEN /\ last' = Obs("resume", "",
                            STree(400, "Missing a required resume parameter", 0, -1, -1),
                            1, "none", arg)
             /\ keep
        ELSE IF session_count = 0 /\ probe_failed
        THEN /\ last' = Obs("resume", "", STree(503, ProbeMessage, 0, -1, -1), 1, "none", arg)
             /\ keep
        ELSE LET audio == resume_takes_audio(host_audio, args, session_count)
                 launch_session == make_launch_session(audio, args, conn.userp.uuid,
                                                       session_id_counter)
             IN /\ host_audio' = audio
                /\ session_id_counter' = launch_session.id
                /\ IF ~launch_session.rtsp_cipher /\ mandatory
                   THEN /\ last' = Obs("resume", "", STree(403, EncryptionMessage, -1, 0, -1),
                                       1, "none", arg)
                        /\ raised' = raised
                   ELSE /\ last' = Obs("resume", "", STree(200, "", 1, -1, -1), 1, "none", arg)
                        /\ raised' = launch_session
  /\ UNCHANGED <<pairvars, app_running, session_count>>

\* the /cancel handler that never looks at the session count
cancel_refuses_never(sessions) == FALSE

\* the test /cancel starts with
cancel_refuses(sessions) == sessions # 0

\* GET /cancel; proc::proc.terminate() leaves no app running
Cancel ==
  /\ Read("/cancel")
  /\ conn' = NoConn
  /\ IF cancel_refuses(session_count)
     THEN /\ last' = Obs("cancel", "",
                         STree(503, "All sessions must be disconnected before quitting",
                               0, -1, -1), 1, "none", [was_running |-> app_running])
          /\ app_running' = app_running
     ELSE /\ last' = Obs("cancel", "", STree(200, "", -1, -1, 1), 1, "none",
                         [was_running |-> app_running])
          /\ app_running' = IF app_running > 0 THEN 0 ELSE app_running
  /\ UNCHANGED <<pairvars, host_audio, session_id_counter, session_count, raised>>

\* the streaming subsystem: sessions begin and end
RtspSessions(n) ==
  /\ Running
  /\ n # session_count
  /\ session_count' = n
  /\ last' = Obs("rtsp", "", EmptyTree, 0, "none", NoArg)
  /\ UNCHANGED <<pairvars, host_audio, session_id_counter, app_running, raised, conn>>

\* the running app exits by itself
AppExits ==
  /\ Running
  /\ app_running > 0
  /\ app_running' = 0
  /\ last' = Obs("app_exit", "", EmptyTree, 0, "none", NoArg)
  /\ UNCHANGED <<pairvars, host_audio, session_id_counter, session_count, raised, conn>>

(************************** the HTTPS endpoints ****************************)
\* query strings of /launch and /resume: one with every parameter, and the
\* ones that differ from it in one parameter
FullArgs ==
  [rikey |-> <<"k">>, rikeyid |-> <<"1">>, localAudioPlayMode |-> <<"1">>, appid |-> <<"1">>,
   corever |-> <<"1">>]

LaunchArgs ==
  {FullArgs,
   [FullArgs EXCEPT !.rikey = Absent],
   [FullArgs EXCEPT !.localAudioPlayMode = Absent],
   [FullArgs EXCEPT !.localAudioPlayMode = <<"0">>],
   [FullArgs EXCEPT !.corever = <<"0">>]}
  \cup {[FullArgs EXCEPT !.appid = a] :
          a \in {Absent, <<"0">>, <<"-", "1">>, <<"7">>, <<"2", "x">>}}

ResumeArgs ==
  {[FullArgs EXCEPT !.appid = Absent, !.localAudioPlayMode = a, !.corever = c] :
     a \in {Absent, <<"0">>, <<"1">>}, c \in {<<"0">>, <<"1">>}}
  \cup {[FullArgs EXCEPT !.appid = Absent, !.rikeyid = Absent]}

\* the requests a peer sends over HTTPS
Requests ==
  {[path |-> "/launch", args |-> a] : a \in LaunchArgs}
  \cup {[path |-> "/resume", args |-> a] : a \in ResumeArgs}
  \cup {[path |-> "/serverinfo", args |-> [uniqueid |-> b]] : b \in BOOLEAN}
  \cup {[path |-> p, args |-> NoArg] : p \in {"/cancel", "/applist", "/appasset", "/pair", "/other"}}

\* what proc::proc.execute returns
ExecErrs == {0, 503, -1}

\* config::sunshine.server_cmds
ServerCmds == {<<>>, <<"restart">>}

\* the peers: a paired client, an unpaired one, one without a certificate
Peers == {"c1", "c2", NoCert}

InitHttps ==
  InitWith({c \in Configs : c.enable_pairing /\ ~c.FRESH_STATE /\ ~c.PIN_STDIN},
           {StateFile(<<>>, <<NamedCert(<<"A">>, "c1", 0)>>)})

NextHttps ==
  \/ Start(TRUE)
  \/ \E c \in Peers, r \in Requests : Accept(c, r.path, r.args)
  \/ \E t \in Tunnels, b \in BOOLEAN, cmds \in ServerCmds : ServerInfo(t, b, cmds)
  \/ \E p \in {"/applist", "/appasset", "/pair", "/other"} : HttpsOther(p)
  \/ \E m \in BOOLEAN, e \in ExecErrs : Launch(m, e)
  \/ \E m \in BOOLEAN, f \in BOOLEAN : Resume(m, f)
  \/ Cancel
  \/ \E n \in 0..Channels : RtspSessions(n)
  \/ AppExits

SpecHttps == InitHttps /\ [][NextHttps]_vars

(********************* claims about the HTTPS endpoints ********************)
\* C21, as the code has it: a /serverinfo response carries the real MAC
\* address and the ServerCommand list exactly when the request arrived over
\* HTTPS, with or without a uniqueid (which only sets PairStatus to 1); over
\* HTTP the MAC is 00:00:00:00:00:00 and there is no ServerCommand element.
C21_MacAndCommandsOverHttps ==
  last.op = "serverinfo" =>
    /\ last.tree.mac = RealMac <=> last.arg.tunnel = "HTTPS"
    /\ last.arg.tunnel = "HTTPS" => last.tree.ServerCommand = last.arg.server_cmds
    /\ last.arg.tunnel = "HTTP" => /\ last.tree.mac = PlaceholderMac
                                   /\ last.tree.ServerCommand = <<>>
    /\ last.tree.PairStatus = 1 <=> (last.arg.tunnel = "HTTPS" /\ last.arg.uniqueid)

\* an HTTPS request without uniqueid was answered with the MAC and the commands
C21_Witness ==
  /\ last.op = "serverinfo"
  /\ last.arg.tunnel = "HTTPS"
  /\ ~last.arg.uniqueid
  /\ last.tree.mac = RealMac
  /\ last.tree.ServerCommand = <<"restart">>

\* C21 as stated: the real MAC and the ServerCommand list are in the response
\* exactly when the request came over HTTPS and has a uniqueid parameter.
C21_MacOnlyWithUniqueid ==
  last.op = "serverinfo" =>
    /\ last.tree.mac = RealMac <=> (last.arg.tunnel = "HTTPS" /\ last.arg.uniqueid)
    /\ (last.arg.tunnel = "HTTP" \/ ~last.arg.uniqueid) => last.tree.ServerCommand = <<>>

\* a /launch request was answered
LaunchStep == last'.op = "launch" /\ conn.path = "/launch"

\* a is the id of no configured app
NotAnApp(a) == a < 0 \/ to_string(a) \notin Apps

\* C22: a /launch request that passes the capacity, required-parameter,
\* already-running and encryption checks and whose appid (parsed atoi-style, so
\* also 0 or negative) is the id of no configured app is answered 404 with
\* gamesession=0, starts no app and hands no launch descriptor over.
C22_UnknownAppIs404 ==
  [][(/\ LaunchStep
      /\ session_count # Channels
      /\ ~launch_params_missing(conn.args)
      /\ app_running = 0
      /\ last'.tree.code # 403
      /\ NotAnApp(from_view(conn.args.appid)))
     => /\ last'.tree.code = 404
        /\ last'.tree.gamesession = 0
        /\ app_running' = app_running
        /\ raised' = raised]_vars

\* a /resume request was answered
ResumeStep == last'.op = "resume" /\ conn.path = "/resume"

\* C23: /resume changes host_audio only when the request carries
\* localAudioPlayMode and no streaming session is active (and the encoders
\* were probed again with success); in every other case the descriptor it
\* builds has the host_audio the previous request left, which stays.
C23_ResumeKeepsHostAudio ==
  [][ResumeStep =>
       /\ host_audio' # host_audio
            => /\ conn.args.localAudioPlayMode # Absent
               /\ session_count = 0
               /\ last'.tree.msg # ProbeMessage
       /\ (conn.args.localAudioPlayMode # Absent /\ session_count = 0
           /\ last'.tree.code \in {200, 403})
            => host_audio' = (from_view(conn.args.localAudioPlayMode) # 0)
       /\ ~(conn.args.localAudioPlayMode # Absent /\ session_count = 0)
            => /\ host_audio' = host_audio
               /\ raised' # raised => raised'.host_audio = host_audio]_vars

\* a /resume changed host_audio and handed a descriptor with the new value
C23_Witness ==
  /\ last.op = "resume"
  /\ last.tree.code = 200
  /\ host_audio # last.arg.audio_before
  /\ raised.host_audio = host_audio

\* a /cancel request was answered
CancelStep == last'.op = "cancel" /\ conn.path = "/cancel"

\* C24: /cancel answers 503 and terminates nothing while a streaming session
\* is active; with none active it answers 200 with cancel=1 and terminates
\* the running app if there is one, so that no app runs after a 200.
C24_CancelOnlyWhenIdle ==
  [][CancelStep =>
       IF session_count # 0
       THEN /\ last'.tree.code = 503
            /\ last'.tree.cancel = -1
            /\ app_running' = app_running
       ELSE /\ last'.tree.code = 200
            /\ last'.tree.cancel = 1
            /\ app_running' = 0]_vars

\* a /cancel with no session active ended the app that ran
C24_Witness ==
  /\ last.op = "cancel"
  /\ last.tree.code = 200
  /\ last.arg.was_running > 0
  /\ app_running = 0

\* the operations that are handlers of HTTPS resources
HttpsHandlerStep ==
  \/ last'.op \in {"launch", "resume", "cancel", "applist", "appasset", "pairchallenge"}
  \/ last'.op = "serverinfo" /\ last'.arg.tunnel = "HTTPS"

MaxStore == 3
SaveNames == {<<"A">>, <<"A", " ", "(", "2", ")">>, <<"B">>}
SaveCerts == {"c1", "c2", "c3"}
SaveEntries == {NamedCert(n, c, u) : n \in SaveNames, c \in SaveCerts, u \in {0, 1}}

\* the sequences over S of length n or less
RECURSIVE SeqsUpTo(_, _)
SeqsUpTo(S, n) ==
  IF n = 0 THEN {<<>>}
  ELSE LET shorter == SeqsUpTo(S, n - 1)
       IN shorter \cup {Append(q, e) : q \in {r \in shorter : Len(r) = n - 1}, e \in S}

\* a running process with any client store, over a state file that is not
\* there yet or holds an older store
InitSave ==
  /\ config = [FRESH_STATE |-> FALSE, PIN_STDIN |-> FALSE, enable_pairing |-> TRUE]
  /\ started = TRUE
  /\ crashed = FALSE
  /\ map_id_sess = NoSessions
  /\ client_root \in SeqsUpTo(SaveEntries, MaxStore)
  /\ cert_chain = client_root
  /\ file_state \in {FileMissing, StateFile(<<"c2">>, <<NamedCert(<<"A">>, "c1", 0)>>)}
  /\ uuid_counter = 0
  /\ otp = OtpCleared
  /\ threads = [t \in Tunnels |-> Idle]
  /\ host_audio = FALSE
  /\ session_id_counter = 0
  /\ app_running = 0
  /\ session_count = 0
  /\ raised = NoLaunchSession
  /\ conn = NoConn
  /\ last = Obs("init", "", EmptyTree, 0, "none", NoArg)

\* save_state().  first: no save_state ran before this one; again: it
\* follows a load_state that followed a save_state
SaveState ==
  /\ Running
  /\ last.op # "save_state"
  /\ file_state' = save_state(file_state, client_root, IoOk)
  /\ last' = Obs("save_state", "", EmptyTree, 0, "none",
                 [first |-> last.op = "init",
                  again |-> last.op = "load_state" /\ last.arg.saved])
  /\ UNCHANGED <<streamvars, threads, config, started, crashed, map_id_sess, client_root,
                 cert_chain, uuid_counter, otp>>

\* load_state().  saved: it follows a save_state
LoadState ==
  /\ Running
  /\ last.op # "load_state"
  /\ UuidRoom(0)
  /\ LET l == load_state(file_state, client_root, cert_chain, uuid_counter, IoOk)
     IN /\ client_root' = l.client_root
        /\ cert_chain' = l.cert_chain
        /\ uuid_counter' = l.uuid_counter
  /\ last' = Obs("load_state", "", EmptyTree, 0, "none", [saved |-> last.op = "save_state"])
  /\ UNCHANGED <<streamvars, threads, config, started, crashed, map_id_sess, file_state, otp>>

NextSave == SaveState \/ LoadState

SpecSave == InitSave /\ [][NextSave]_vars

\* C26: saving is idempotent across a reload: save_state, load_state,
\* save_state writes the file the first save_state wrote (same entries, same
\* order, same names with their " (N)" suffixes, same uuids).
C26_SaveLoadSaveIsSave ==
  [][(last'.op = "save_state" /\ last'.arg.again) => file_state' = file_state]_vars

\* the second save after a reload, of a file in which a name was numbered
C26_Witness ==
  /\ last.op = "save_state"
  /\ last.arg.again
  /\ file_state.kind = "state"
  /\ \E i \in 1..Len(file_state.named_devices) :
       file_state.named_devices[i].name = <<"A", " ", "(", "3", ")">>

\* the name a base name gets at its k-th use
numbered(base, k) ==
  IF k = 1 THEN base ELSE base \o <<" ", "(", Digit[k + 1], ")">>

\* a name without what follows its first " ("
stripped(name) ==
  IF \E i \in 1..(Len(name) - 1) : name[i] = " " /\ name[i + 1] = "("
  THEN SubSeq(name, 1,
              (CHOOSE i \in 1..(Len(name) - 1) :
                 /\ name[i] = " " /\ name[i + 1] = "("
                 /\ \A j \in 1..(i - 1) : ~(name[j] = " " /\ name[j + 1] = "(")) - 1)
  ELSE name

\* the positions of devs holding the first occurrence of their certificate
FirstOfCert(devs) ==
  {i \in 1..Len(devs) : \A j \in 1..(i - 1) : devs[j].cert # devs[i].cert}

\* C27: in the file save_state writes, the entries are the first occurrence
\* of each certificate in insertion order; each name is stripped from its
\* first " (" on and the first entry of a base name is written bare, the
\* k-th (k >= 2) with " (k)" appended; the written names are pairwise distinct.
C27_SavedEntriesAndNames ==
  [][last'.op = "save_state" =>
       LET out == file_state'.named_devices
           firsts == FirstOfCert(client_root)
           \* the position in client_root of the entry written i-th
           src(i) == CHOOSE p \in firsts : Cardinality({q \in firsts : q < p}) = i - 1
           uses(i) == Cardinality({j \in 1..i :
                                     stripped(client_root[src(j)].name)
                                       = stripped(client_root[src(i)].name)})
       IN /\ file_state'.kind = "state"
          /\ Len(out) = Cardinality(firsts)
          /\ \A i \in 1..Len(out) :
               /\ out[i].cert = client_root[src(i)].cert
               /\ out[i].uuid = client_root[src(i)].uuid
               /\ out[i].name = numbered(stripped(client_root[src(i)].name), uses(i))
          /\ \A i, j \in 1..Len(out) : i # j => out[i].name # out[j].name]_vars

\* a save that dropped a repeated certificate and numbered a repeated name
C27_Witness ==
  /\ last.op = "save_state"
  /\ last.arg.first
  /\ Len(client_root) = 3
  /\ Len(file_state.named_devices) = 2
  /\ file_state.named_devices[2].name = <<"A", " ", "(", "2", ")">>
  /\ client_root[2].name = <<"A">>

(******************** the store, its file and FRESH_STATE ******************)
\* a step that is one of the three mutations of the client store
StoreMutation == PairedStep \/ last'.op \in {"unpair_client", "erase_all_clients"}

\* C28: with FRESH_STATE set none of add_authorized_client, erase_all_clients
\* and unpair_client writes the state file or reloads the store from it: the
\* file content is unchanged by any sequence of them.
C28_FreshStateLeavesFile ==
  [][(config.FRESH_STATE /\ StoreMutation) => file_state' = file_state]_vars

\* C29: an I/O error on the state file during the save-then-reload of
\* add_authorized_client, unpair_client or erase_all_clients does not change
\* what the process holds: afterwards the store is what the operation made
\* (the added client present, the removed clients absent), not the file's
\* older content.
C29_StoreSurvivesIoError ==
  [][/\ PairedStep => last'.arg.cert \in CertsOf(client_root')
     /\ last'.op = "unpair_client"
          => \A i \in 1..Len(client_root') : client_root'[i].uuid # last'.arg.uuid
     /\ last'.op = "erase_all_clients" => client_root' = <<>>]_vars

(**************** pin() while a getservercert is being handled *************)
\* pin() is called from another thread than the one that runs pair(), and
\* nothing serialises the two.  Here the asynchronous getservercert runs in
\* the steps a thread switch can separate: the emplace, the salt, the
\* response handle.

\* lines 612-631: the session is in the map, without salt or response handle
\* unless the map already had one for the uniqueid
GscEmplace(t, uniqID, deviceName, cert) ==
  /\ Dispatched(t)
  /\ ~config.PIN_STDIN
  /\ threads[t] = Idle
  /\ map_id_sess' = getservercert_insert(map_id_sess, uniqID, deviceName, cert, EmptySalt, "salt")
  /\ threads' = [threads EXCEPT ![t] = [pc |-> "emplaced", u |-> uniqID]]
  /\ last' = Obs("gsc_emplace", uniqID, EmptyTree, 0, "none", NoArg)
  /\ UNCHANGED <<streamvars, config, started, crashed, client_root, cert_chain, file_state,
                 uuid_counter, otp>>

\* line 633: the salt of the request is stored in the session
GscSalt(t, salt) ==
  /\ Running
  /\ threads[t].pc = "emplaced"
  /\ map_id_sess' = [map_id_sess EXCEPT ![threads[t].u].salt = salt]
  /\ threads' = [threads EXCEPT ![t].pc = "salted"]
  /\ last' = Obs("gsc_salt", threads[t].u, EmptyTree, 0, "none", NoArg)
  /\ UNCHANGED <<streamvars, config, started, crashed, client_root, cert_chain, file_state,
                 uuid_counter, otp>>

\* lines 682-685: the response handle is stored, the guard disabled
GscSuspend(t) ==
  /\ Running
  /\ threads[t].pc = "salted"
  /\ map_id_sess' = [map_id_sess EXCEPT ![threads[t].u].response = t]
  /\ threads' = [threads EXCEPT ![t] = Idle]
  /\ last' = Obs("getservercert", threads[t].u, EmptyTree, guard_writes(TRUE), "none",
                 [missing |-> "none", otpauth |-> NoOtpAuth])
  /\ UNCHANGED <<streamvars, config, started, crashed, client_root, cert_chain, file_state,
                 uuid_counter, otp>>

InitPinRace ==
  InitWith({c \in Configs : c.enable_pairing /\ ~c.FRESH_STATE /\ ~c.PIN_STDIN}, {FileMissing})

NextPinRace ==
  \/ Start(TRUE)
  \/ \E u \in PinUniqueIds : GscEmplace("HTTP", u, <<"A">>, "c1")
  \/ \E s \in Salts : GscSalt("HTTP", s)
  \/ GscSuspend("HTTP")
  \/ \E pa \in PinArgs, n \in PinNames, u \in PinUniqueIds : Pin(pa, n, u)

SpecPinRace == InitPinRace /\ [][NextPinRace]_vars

\* C30: the creation of a session by getservercert is atomic for pin(): pin()
\* never finds a session that is in the map without its salt or its
\* suspended response, so a valid pin() that meets an asynchronous
\* getservercert finds no session or writes that request's response.
C30_SessionCreationAtomic ==
  [][(PinRuns /\ \E t \in Tunnels : threads[t].pc # "idle" /\ threads[t].u = last'.u)
       => /\ map_id_sess[last'.u].salt # EmptySalt
          /\ last'.arg.wrote]_vars

(******************* pin() on a session that is not waiting *****************)
\* PINs the entry channel may be given: two that pass the checks of pin(), one
\* too short, one with a letter
EnteredPins == PinArgs \cup {[id |-> "5678", len |-> 4, numeric |-> TRUE]}
\* names the entry channel may be given; the clients call themselves "A"
EnteredNames == PinNames \cup {<<"B">>}

\* One client asks for the server certificate, with PIN_STDIN set or not, and
\* PINs are entered through pin() before and after its response was written.
InitPinAgain == InitWith({c \in Configs : c.enable_pairing /\ ~c.FRESH_STATE}, {FileMissing})

NextPinAgain ==
  \/ Start(TRUE)
  \/ \E t \in Tunnels, u \in PinUniqueIds, s \in Salts, p \in Pins :
       PairGetServerCert(t, u, <<"A">>, "c1", s, "none", NoOtpAuth, p)
  \/ \E pa \in EnteredPins, n \in EnteredNames, u \in PinUniqueIds : Pin(pa, n, u)

SpecPinAgain == InitPinAgain /\ [][NextPinAgain]_vars

\* C31: a pin() call that returns false changes no pairing session; when the
\* session it selected holds no suspended response (keyed from stdin or OTP,
\* or completed by an earlier pin()), its cipher key and client name are the
\* same after the call as before.
C31_FalsePinChangesNothing ==
  [][(last'.op = "pin" /\ ~last'.arg.returned)
       => /\ map_id_sess' = map_id_sess
          /\ \A u \in DOMAIN map_id_sess :
               map_id_sess[u].response = NoResponse
                 => /\ map_id_sess'[u].cipher_key = map_id_sess[u].cipher_key
                    /\ map_id_sess'[u].client.name = map_id_sess[u].client.name]_vars

(************************ the order of the handshake ***********************)
\* C32: a certificate enters the client store only at the end of a complete
\* handshake of its session: the clientpairingsecret request answered
\* paired=1 finds a session that has a cipher key (from pin(), stdin or OTP),
\* the serversecret and serverchallenge a clientchallenge set, and the
\* clienthash a serverchallengeresp set.  Steps with an invalid access are
\* left aside: the property is about the requests the code handles as written.
C32_CertAddedAfterFullHandshake ==
  [][(PairedStep /\ last'.u \in DOMAIN map_id_sess /\ last'.ub = "none")
       => LET sess == map_id_sess[last'.u]
          IN /\ sess.cipher_key # NoKey
             /\ sess.serversecret # 0
             /\ sess.serverchallenge # 0
             /\ sess.clienthash # EmptyBytes]_vars

(*************************** a rejected /launch ****************************)
\* C33: a /launch request answered with anything but status_code 200 (503
\* capacity, 400 missing parameter or app already running, 403 mandatory
\* encryption, 404 unknown app, an app-start error) leaves the shared
\* host_audio and the session-id counter as they were and hands no launch
\* descriptor to the streaming subsystem.
C33_RejectedLaunchChangesNothing ==
  [][(LaunchStep /\ last'.tree.code # 200)
       => /\ host_audio' = host_audio
          /\ session_id_counter' = session_id_counter
          /\ raised' = raised]_vars

====
